---- MODULE Spec2Model ----
(***************************************************************************)
(* State-machine model of news_collection.py: an RSS monitor that, per     *)
(* feed source, fetches the entries, filters them by recency and by the    *)
(* persisted set of seen links, translates the title, prints the story,    *)
(* scrapes the article and saves the seen links after every feed.          *)
(*                                                                         *)
(* External capabilities (feedparser.parse, langdetect.detect,             *)
(* requests.post, newspaper.Article, the file system) are modelled by a    *)
(* nondeterministic choice over the outcomes they can produce: a normal    *)
(* return or a raised exception.  An exception that no try/except of the   *)
(* program catches ends the process (pc = "aborted").  The process may     *)
(* also be killed at any statement; a new process may then be started.     *)
(***************************************************************************)
EXTENDS Integers, Sequences, FiniteSets, TLC

\* ------------------------------------------------------------- bounds
NumFeeds == 2      \* number of configured feed sources that are modelled
MaxEntries == 2    \* longest entry list a feed yields
MaxRuns == 2       \* number of successive processes (runs) that are modelled
MaxClock == 1      \* latest instant a later run's recency threshold can take

\* ------------------------------------------------------------- data
Feeds == 1..NumFeeds
Links == {"A", "B"}
Absent == "<absent>"                  \* dict.get(...) found no such key

\* A published string, by what dateutil makes of it.
Pub(kind, t) == [kind |-> kind, t |-> t]
PubInstants == 0..1
\* Published values of the entries the modelled feeds serve.
FeedPublished == {Pub("aware", t) : t \in PubInstants}
\* Every shape of published value is_recent distinguishes.
AllPublished ==
  {Pub("absent", 0), Pub("empty", 0), Pub("garbage", 0)}
    \cup {Pub(k, t) : k \in {"aware", "naive"}, t \in 0..2}

\* The title the feed gives for an article (none for article B).
ArticleTitle(link) == IF link = "A" THEN "Bonjour" ELSE Absent

FeedEntries ==
  {[link |-> l, published |-> p, title |-> ArticleTitle(l)] :
     l \in Links, p \in FeedPublished}

NoEntry == [link |-> "", published |-> Pub("absent", 0), title |-> Absent]

SeqsUpTo(S, n) == UNION {[1..k -> S] : k \in 0..n}

Range(s) == {s[i] : i \in 1..Len(s)}

\* Every order in which iterating a set can yield its elements.
Orders(S) ==
  {s \in [1..Cardinality(S) -> S] : \A i, j \in 1..Cardinality(S) : s[i] = s[j] => i = j}

\* ------------------------------------------------------------- variables
VARIABLES
  feeds,           \* what each feed source serves (the outside world)
  pc,              \* the statement the process is at
  run,             \* which process this is: 1, 2, ...
  TIME_THRESHOLD,  \* the recency threshold computed when the module loads
  seen_links,      \* module-level set of seen links
  count_sum,       \* run-wide new-item counter
  count,           \* per-feed new-item counter
  feedIdx,         \* position of the FEED_SOURCES iteration
  entries,         \* entries of the current feed not yet iterated
  entry,           \* the entry under evaluation
  title_en,        \* the value translate_title returned
  disk,            \* SEEN_FILE
  out,             \* standard output of this process
  log,             \* log records of this process
  loaded,          \* history: the seen set loaded at startup
  accepted,        \* history: [feed, link] of every seen_links.add of this run
  saved,           \* history: feeds whose save_seen completed in this run
  prev,            \* history: how the previous process ended
  err,             \* the uncaught exception that ended this process, if any
  snaps,           \* history: the sets the completed save_seen calls of this run wrote
  trIn,            \* translate_title harness: the arguments
  trOut,           \* translate_title harness: the outcome
  recIn,           \* is_recent harness: the entry and the threshold
  recOut           \* is_recent harness: the outcome

vars ==
  <<feeds, pc, run, TIME_THRESHOLD, seen_links, count_sum, count, feedIdx,
    entries, entry, title_en, disk, out, log, loaded, accepted, saved,
    prev, err, snaps, trIn, trOut, recIn, recOut>>

runVars ==
  <<feeds, pc, run, TIME_THRESHOLD, seen_links, count_sum, count, feedIdx,
    entries, entry, title_en, disk, out, log, loaded, accepted, saved,
    prev, err, snaps>>

\* ------------------------------------------------------------- translate_title
DetectOutcomes == {"en", "zh", "fr", "raise"}
RemoteOutcomes == {"ok", "neterr", "badjson", "nondict", "nofield", "empty"}
Languages == {"en", "zh", "fr"}
Texts == {"Bonjour", "Hello", "No title"}

\* What the translation service answers for a text.
Translated(text, target_lang) == text \o "@" \o target_lang

BypassLangs == {"en", "zh"}

TrResult(raised, value, posts, warned) ==
  [raised |-> raised, value |-> value, posts |-> posts, warned |-> warned]

\* Variant: only the target language bypasses translation.
translate_title_target_only(text, target_lang, det, rem) ==
  IF det = "raise" THEN TrResult(TRUE, "", 0, FALSE)
  ELSE IF det = target_lang THEN TrResult(FALSE, text, 0, FALSE)
  ELSE IF rem \in {"neterr", "badjson", "nondict"} THEN TrResult(FALSE, text, 1, TRUE)
  ELSE IF rem \in {"nofield", "empty"} THEN TrResult(FALSE, text, 1, FALSE)
  ELSE TrResult(FALSE, Translated(text, target_lang), 1, FALSE)

\* Variant: "return translated" without the fallback to text.
translate_title_no_fallback(text, target_lang, det, rem) ==
  IF det = "raise" THEN TrResult(TRUE, "", 0, FALSE)
  ELSE IF det \in BypassLangs THEN TrResult(FALSE, text, 0, FALSE)
  ELSE IF rem \in {"neterr", "badjson", "nondict"} THEN TrResult(FALSE, text, 1, TRUE)
  ELSE IF rem = "nofield" THEN TrResult(FALSE, Absent, 1, FALSE)
  ELSE IF rem = "empty" THEN TrResult(FALSE, "", 1, FALSE)
  ELSE TrResult(FALSE, Translated(text, target_lang), 1, FALSE)

\* translate_title(text, target_lang) when detect(text) ends as det and the
\* request to the translation service ends as rem.
translate_title(text, target_lang, det, rem) ==
  IF det = "raise" THEN TrResult(TRUE, "", 0, FALSE)
  ELSE IF det \in BypassLangs THEN TrResult(FALSE, text, 0, FALSE)
  ELSE IF rem \in {"neterr", "badjson", "nondict"} THEN TrResult(FALSE, text, 1, TRUE)
  ELSE IF rem \in {"nofield", "empty"} THEN TrResult(FALSE, text, 1, FALSE)
  ELSE TrResult(FALSE, Translated(text, target_lang), 1, FALSE)

\* ------------------------------------------------------------- is_recent
RecResult(raised, value, logged) == [raised |-> raised, value |-> value, logged |-> logged]

\* date_parser.parse(pub_date_str): raises on a string it cannot read; gives a
\* datetime with a timezone (aware) when the string names an offset, and one
\* without (naive) when it names none.
date_parse(p) ==
  [raised |-> p.kind = "garbage", aware |-> p.kind = "aware", t |-> p.t]

\* pub_date > TIME_THRESHOLD: comparing a naive datetime with the aware
\* threshold raises TypeError.
later_than(d, threshold) == [raised |-> ~d.aware, value |-> d.t > threshold]

\* is_recent(entry) statement by statement: what it returns, whether an
\* exception leaves it, whether it logs "Date parse failed".
is_recent_call(e, threshold) ==
  IF e.published.kind \in {"absent", "empty"} THEN RecResult(FALSE, FALSE, FALSE)
  ELSE LET d == date_parse(e.published) IN
    IF d.raised THEN RecResult(FALSE, FALSE, TRUE)
    ELSE LET c == later_than(d, threshold) IN
      IF c.raised THEN RecResult(FALSE, FALSE, TRUE)
      ELSE RecResult(FALSE, c.value, FALSE)

\* The value is_recent(entry) returns.
is_recent(e, threshold) == is_recent_call(e, threshold).value

\* ------------------------------------------------------------- SEEN_FILE
NoFile == [exists |-> FALSE, closed |-> FALSE, text |-> <<>>]
Truncated == [exists |-> TRUE, closed |-> FALSE, text |-> <<>>]
Written(s) == [exists |-> TRUE, closed |-> TRUE, text |-> s]

Loadable(file) == ~file.exists \/ file.closed

\* Variant: the file is never read back.
LoadSeenNothing(file) == {}

\* Variant: only the first element of the list is read back.
LoadSeenHead(file) == IF file.exists /\ file.text # <<>> THEN {Head(file.text)} ELSE {}

LoadSeen(file) == IF file.exists THEN Range(file.text) ELSE {}

\* ------------------------------------------------------------- output records
Story(source, title, published, link) ==
  [kind |-> "story", source |-> source, title |-> title,
   published |-> published, link |-> link, n |-> 0]
Excerpt(link) ==
  [kind |-> "excerpt", source |-> 0, title |-> "", published |-> Pub("absent", 0),
   link |-> link, n |-> 0]
SummaryLine(n) ==
  [kind |-> "summary", source |-> 0, title |-> "", published |-> Pub("absent", 0),
   link |-> "", n |-> n]

LogRec(kind, feed, link, n) == [kind |-> kind, feed |-> feed, link |-> link, n |-> n]

\* How the previous process ended: "done", "aborted", "load_failed" or, killed
\* while running, "killed"; its threshold; whether it was inside a feed's entry
\* loop; and the links it had added to seen_links in that feed.
NoPrev == [how |-> "none", threshold |-> 0, inFeed |-> FALSE, feedAccepted |-> {}]

\* Statements between the start of a feed's entry loop and its save_seen().
InFeedPcs ==
  {"for_entry", "is_recent", "seen", "translate", "print", "add", "count",
   "count_sum", "scrape", "log_count"}
SavePcs == {"save_open", "save_dump"}
RunningPcs == InFeedPcs \cup SavePcs \cup {"for_feed", "sleep", "summary"}
EndedPcs == {"done", "aborted", "load_failed"}

\* ------------------------------------------------------------- Init
\* The state once the module has loaded in the first process: no SEEN_FILE
\* exists yet, so seen_links starts empty; fetch_and_process is about to run.
ProcessStart ==
  /\ pc = "for_feed"
  /\ run = 1
  /\ TIME_THRESHOLD = 0
  /\ seen_links = {}
  /\ count_sum = 0
  /\ count = 0
  /\ feedIdx = 0
  /\ entries = <<>>
  /\ entry = NoEntry
  /\ title_en = ""
  /\ disk = NoFile
  /\ out = <<>>
  /\ log = <<>>
  /\ loaded = {}
  /\ accepted = <<>>
  /\ saved = {}
  /\ prev = NoPrev
  /\ err = "none"
  /\ snaps = <<>>

NoCall == [called |-> FALSE, det |-> "", rem |-> "", res |-> TrResult(FALSE, "", 0, FALSE)]

NoRecIn == [entry |-> NoEntry, threshold |-> 0]
NoRecCall == [called |-> FALSE, res |-> RecResult(FALSE, FALSE, FALSE)]

Init ==
  /\ feeds \in [Feeds -> SeqsUpTo(FeedEntries, MaxEntries)]
  /\ ProcessStart
  /\ trIn = [text |-> "", target |-> ""]
  /\ trOut = NoCall
  /\ recIn = NoRecIn
  /\ recOut = NoRecCall

\* ------------------------------------------------------------- fetch_and_process
\* feedparser.parse returns a result or raises.  A failure it records in the
\* result (bozo) instead of raising reaches the program as the entry list of
\* that result, empty or partial, which is one of the lists a feed can serve.
FetchOutcomes == {"ok", "raise"}

ParsedEntries(f) == feeds[f]

\* for feed_url, metadata in FEED_SOURCES.items(): the sources are exhausted.
ForFeedDone ==
  /\ pc = "for_feed"
  /\ feedIdx = NumFeeds
  /\ pc' = "summary"
  /\ UNCHANGED <<feeds, run, TIME_THRESHOLD, seen_links, count_sum, count, feedIdx,
                 entries, entry, title_en, disk, out, log, loaded, accepted, saved,
                 prev, err, snaps, trIn, trOut, recIn, recOut>>

\* Variant: the iteration skips a source.
NextSourceSkip(i) == i + 2

\* The source the iteration over FEED_SOURCES.items() yields after source i.
NextSource(i) == i + 1

\* The next source: log, feedparser.parse(feed_url), count = 0.  An exception
\* out of feedparser.parse is caught nowhere.
ForFeedFetch ==
  /\ pc = "for_feed"
  /\ feedIdx < NumFeeds
  /\ \E outcome \in FetchOutcomes :
       /\ feedIdx' = NextSource(feedIdx)
       /\ log' = Append(log, LogRec("fetching", NextSource(feedIdx), "", 0))
       /\ IF outcome = "raise"
            THEN /\ pc' = "aborted"
                 /\ err' = "feedparser.parse"
                 /\ UNCHANGED <<entries, count>>
            ELSE /\ pc' = "for_entry"
                 /\ entries' = ParsedEntries(NextSource(feedIdx))
                 /\ count' = 0
                 /\ err' = err
  /\ UNCHANGED <<feeds, run, TIME_THRESHOLD, seen_links, count_sum,
                 entry, title_en, disk, out, loaded, accepted, saved,
                 prev, snaps, trIn, trOut, recIn, recOut>>

\* for entry in feed.entries
ForEntry ==
  /\ pc = "for_entry"
  /\ IF entries = <<>>
       THEN /\ pc' = "log_count"
            /\ UNCHANGED <<entries, entry>>
       ELSE /\ pc' = "is_recent"
            /\ entry' = Head(entries)
            /\ entries' = Tail(entries)
  /\ UNCHANGED <<feeds, run, TIME_THRESHOLD, seen_links, count_sum, count, feedIdx,
                 title_en, disk, out, log, loaded, accepted, saved,
                 prev, err, snaps, trIn, trOut, recIn, recOut>>

\* Variant: the "continue" is missing.
NotRecentFallsThrough == "seen"

\* Where "continue" takes control for an entry that is not recent.
NotRecentPc == "for_entry"

\* if not is_recent(entry): continue
CheckRecent ==
  /\ pc = "is_recent"
  /\ pc' = IF is_recent(entry, TIME_THRESHOLD) THEN "seen" ELSE NotRecentPc
  /\ log' = IF is_recent_call(entry, TIME_THRESHOLD).logged
              THEN Append(log, LogRec("date_parse_failed", feedIdx, entry.link, 0))
              ELSE log
  /\ UNCHANGED <<feeds, run, TIME_THRESHOLD, seen_links, count_sum, count, feedIdx,
                 entries, entry, title_en, disk, out, loaded, accepted, saved,
                 prev, err, snaps, trIn, trOut, recIn, recOut>>

\* Variant: no membership test.
SeenCheckNever(link) == FALSE

\* link = entry.get("link"); if link in seen_links: continue
SeenCheck(link) == link \in seen_links

CheckSeen ==
  /\ pc = "seen"
  /\ pc' = IF SeenCheck(entry.link) THEN "for_entry" ELSE "translate"
  /\ UNCHANGED <<feeds, run, TIME_THRESHOLD, seen_links, count_sum, count, feedIdx,
                 entries, entry, title_en, disk, out, log, loaded, accepted, saved,
                 prev, err, snaps, trIn, trOut, recIn, recOut>>

\* title = entry.get("title", "No title")
TitleOf(e) == IF e.title = Absent THEN "No title" ELSE e.title

\* title_en = translate_title(title, "en"); an exception out of it is caught
\* nowhere.
Translate ==
  /\ pc = "translate"
  /\ \E det \in DetectOutcomes, rem \in RemoteOutcomes :
       LET r == translate_title(TitleOf(entry), "en", det, rem) IN
         IF r.raised
           THEN /\ pc' = "aborted"
                /\ err' = "detect"
                /\ UNCHANGED <<title_en, log>>
           ELSE /\ pc' = "print"
                /\ title_en' = r.value
                /\ log' = IF r.warned
                            THEN Append(log, LogRec("translation_failed", feedIdx, entry.link, 0))
                            ELSE log
                /\ err' = err
  /\ UNCHANGED <<feeds, run, TIME_THRESHOLD, seen_links, count_sum, count, feedIdx,
                 entries, entry, disk, out, loaded, accepted, saved,
                 prev, snaps, trIn, trOut, recIn, recOut>>

\* story = {...}; print(source, title, published); print(link)
PrintStory ==
  /\ pc = "print"
  /\ out' = Append(out, Story(feedIdx, title_en, entry.published, entry.link))
  /\ pc' = "add"
  /\ UNCHANGED <<feeds, run, TIME_THRESHOLD, seen_links, count_sum, count, feedIdx,
                 entries, entry, title_en, disk, log, loaded, accepted, saved,
                 prev, err, snaps, trIn, trOut, recIn, recOut>>

\* Variant: the set is replaced by the one link.
SeenAddReplace(S, link) == {link}

\* Variant: the link is not added.
SeenAddNothing(S, link) == S

\* seen_links.add(link)
SeenAdd(S, link) == S \cup {link}

AddSeen ==
  /\ pc = "add"
  /\ seen_links' = SeenAdd(seen_links, entry.link)
  /\ accepted' = Append(accepted, [feed |-> feedIdx, link |-> entry.link])
  /\ pc' = "count"
  /\ UNCHANGED <<feeds, run, TIME_THRESHOLD, count_sum, count, feedIdx,
                 entries, entry, title_en, disk, out, log, loaded, saved,
                 prev, err, snaps, trIn, trOut, recIn, recOut>>

\* count += 1
IncCount ==
  /\ pc = "count"
  /\ count' = count + 1
  /\ pc' = "count_sum"
  /\ UNCHANGED <<feeds, run, TIME_THRESHOLD, seen_links, count_sum, feedIdx,
                 entries, entry, title_en, disk, out, log, loaded, accepted, saved,
                 prev, err, snaps, trIn, trOut, recIn, recOut>>

\* count_sum += 1
IncCountSum ==
  /\ pc = "count_sum"
  /\ count_sum' = count_sum + 1
  /\ pc' = "scrape"
  /\ UNCHANGED <<feeds, run, TIME_THRESHOLD, seen_links, count, feedIdx,
                 entries, entry, title_en, disk, out, log, loaded, accepted, saved,
                 prev, err, snaps, trIn, trOut, recIn, recOut>>

\* try: Article(link); download(); parse(); print(text[:150])
\* except Exception: logging.error(...)
ScrapeOutcomes == {"ok", "download_failed", "parse_failed"}

\* Variant: the scrape's exception is not caught.
ScrapeFailedUncaught == "aborted"

\* Where control goes from the except clause of the scrape.
ScrapeFailedPc == "for_entry"

Scrape ==
  /\ pc = "scrape"
  /\ \E outcome \in ScrapeOutcomes :
       IF outcome = "ok"
         THEN /\ out' = Append(out, Excerpt(entry.link))
              /\ log' = log
              /\ pc' = "for_entry"
         ELSE /\ out' = out
              /\ log' = Append(log, LogRec("scrape_failed", feedIdx, entry.link, 0))
              /\ pc' = ScrapeFailedPc
  /\ UNCHANGED <<feeds, run, TIME_THRESHOLD, seen_links, count_sum, count, feedIdx,
                 entries, entry, title_en, disk, loaded, accepted, saved,
                 prev, err, snaps, trIn, trOut, recIn, recOut>>

\* logging.info(f"{count} new articles processed.")
LogCount ==
  /\ pc = "log_count"
  /\ log' = Append(log, LogRec("count", feedIdx, "", count))
  /\ pc' = "save_open"
  /\ UNCHANGED <<feeds, run, TIME_THRESHOLD, seen_links, count_sum, count, feedIdx,
                 entries, entry, title_en, disk, out, loaded, accepted, saved,
                 prev, err, snaps, trIn, trOut, recIn, recOut>>

\* save_seen(): open(SEEN_FILE, "w") truncates the file, or raises OSError.
SaveOpen ==
  /\ pc = "save_open"
  /\ \E ok \in BOOLEAN :
       IF ok THEN /\ disk' = Truncated
                  /\ pc' = "save_dump"
                  /\ err' = err
             ELSE /\ disk' = disk
                  /\ pc' = "aborted"
                  /\ err' = "open"
  /\ UNCHANGED <<feeds, run, TIME_THRESHOLD, seen_links, count_sum, count, feedIdx,
                 entries, entry, title_en, out, log, loaded, accepted, saved,
                 prev, snaps, trIn, trOut, recIn, recOut>>

\* json.dump(list(seen_links), f) and the close of the file: the list holds the
\* set's elements in the order iteration yields them; a failed write raises.
\* Variant: the last element of the list is not written.
SnapshotShort(S) == {Written(SubSeq(s, 1, Len(s) - 1)) : s \in Orders(S)}

Snapshot(S) == {Written(s) : s \in Orders(S)}

SaveDump ==
  /\ pc = "save_dump"
  /\ \/ /\ disk' \in Snapshot(seen_links)
        /\ saved' = saved \cup {feedIdx}
        /\ snaps' = Append(snaps, Range(disk'.text))
        /\ pc' = "sleep"
        /\ err' = err
     \/ /\ pc' = "aborted"
        /\ err' = "json.dump"
        /\ UNCHANGED <<disk, saved, snaps>>
  /\ UNCHANGED <<feeds, run, TIME_THRESHOLD, seen_links, count_sum, count, feedIdx,
                 entries, entry, title_en, out, log, loaded, accepted,
                 prev, trIn, trOut, recIn, recOut>>

\* time.sleep(1)
Sleep ==
  /\ pc = "sleep"
  /\ pc' = "for_feed"
  /\ UNCHANGED <<feeds, run, TIME_THRESHOLD, seen_links, count_sum, count, feedIdx,
                 entries, entry, title_en, disk, out, log, loaded, accepted, saved,
                 prev, err, snaps, trIn, trOut, recIn, recOut>>

\* print(f"{count_sum} articles processed. ...")
Summary ==
  /\ pc = "summary"
  /\ out' = Append(out, SummaryLine(count_sum))
  /\ pc' = "done"
  /\ UNCHANGED <<feeds, run, TIME_THRESHOLD, seen_links, count_sum, count, feedIdx,
                 entries, entry, title_en, disk, log, loaded, accepted, saved,
                 prev, err, snaps, trIn, trOut, recIn, recOut>>

\* The links this run has added to seen_links while in feed f.
AcceptedIn(f) == {accepted[k].link : k \in {i \in 1..Len(accepted) : accepted[i].feed = f}}

HowEnded == IF pc \in RunningPcs THEN "killed" ELSE pc

\* The process has ended, or is killed at the statement it is about to
\* execute, and a new process starts: the module loads again (threshold,
\* seen_links from SEEN_FILE) and calls fetch_and_process.  json.load raises
\* on a file that holds no complete JSON document.
Restart ==
  /\ run < MaxRuns
  /\ run' = run + 1
  /\ TIME_THRESHOLD' \in TIME_THRESHOLD..MaxClock
  /\ prev' = [how |-> HowEnded, threshold |-> TIME_THRESHOLD,
              inFeed |-> (pc \in InFeedPcs),
              feedAccepted |-> IF pc \in InFeedPcs THEN AcceptedIn(feedIdx) ELSE {}]
  /\ IF Loadable(disk)
       THEN /\ seen_links' = LoadSeen(disk)
            /\ loaded' = LoadSeen(disk)
            /\ pc' = "for_feed"
            /\ err' = "none"
       ELSE /\ seen_links' = {}
            /\ loaded' = {}
            /\ pc' = "load_failed"
            /\ err' = "json.load"
  /\ count_sum' = 0
  /\ count' = 0
  /\ feedIdx' = 0
  /\ entries' = <<>>
  /\ entry' = NoEntry
  /\ title_en' = ""
  /\ out' = <<>>
  /\ log' = <<>>
  /\ accepted' = <<>>
  /\ saved' = {}
  /\ snaps' = <<>>
  /\ UNCHANGED <<feeds, disk, trIn, trOut, recIn, recOut>>

Next ==
  \/ ForFeedDone
  \/ ForFeedFetch
  \/ ForEntry
  \/ CheckRecent
  \/ CheckSeen
  \/ Translate
  \/ PrintStory
  \/ AddSeen
  \/ IncCount
  \/ IncCountSum
  \/ Scrape
  \/ LogCount
  \/ SaveOpen
  \/ SaveDump
  \/ Sleep
  \/ Summary
  \/ Restart

Spec == Init /\ [][Next]_vars

\* ------------------------------------------------------------- translate_title alone
\* translate_title called with any text and any target language, under every
\* outcome of detect and of the request.
TrInit ==
  /\ feeds = [f \in Feeds |-> <<>>]
  /\ ProcessStart
  /\ trIn \in [text : Texts, target : Languages]
  /\ trOut = NoCall
  /\ recIn = NoRecIn
  /\ recOut = NoRecCall

TrCall ==
  /\ ~trOut.called
  /\ \E det \in DetectOutcomes, rem \in RemoteOutcomes :
       trOut' = [called |-> TRUE, det |-> det, rem |-> rem,
                 res |-> translate_title(trIn.text, trIn.target, det, rem)]
  /\ UNCHANGED <<runVars, trIn, recIn, recOut>>

TrNext == TrCall

TrSpec == TrInit /\ [][TrNext]_vars

\* ------------------------------------------------------------- is_recent alone
\* is_recent called on an entry with any shape of published value, under any
\* threshold.
RecEntries ==
  {[link |-> l, published |-> p, title |-> ArticleTitle(l)] : l \in Links, p \in AllPublished}

RecInit ==
  /\ feeds = [f \in Feeds |-> <<>>]
  /\ ProcessStart
  /\ trIn = [text |-> "", target |-> ""]
  /\ trOut = NoCall
  /\ recIn \in [entry : RecEntries, threshold : 0..(MaxClock + 1)]
  /\ recOut = NoRecCall

RecCall ==
  /\ ~recOut.called
  /\ recOut' = [called |-> TRUE, res |-> is_recent_call(recIn.entry, recIn.threshold)]
  /\ UNCHANGED <<runVars, trIn, trOut, recIn>>

RecNext == RecCall

RecSpec == RecInit /\ [][RecNext]_vars

\* ------------------------------------------------------------- properties
StoryIdx(l) == {i \in 1..Len(out) : out[i].kind = "story" /\ out[i].link = l}
ExcerptIdx(l) == {i \in 1..Len(out) : out[i].kind = "excerpt" /\ out[i].link = l}
AcceptIdx(l) == {i \in 1..Len(accepted) : accepted[i].link = l}
AcceptedLinks == {accepted[i].link : i \in 1..Len(accepted)}
SummaryPrinted == \E i \in 1..Len(out) : out[i].kind = "summary"
SomeRecent == \E f \in Feeds : \E i \in 1..Len(feeds[f]) : is_recent(feeds[f][i], TIME_THRESHOLD)

\* C1: a run that follows a completed run, loads the file that run wrote and
\* has the same threshold (the feeds serve the same entries) accepts nothing:
\* no link is added, no story is printed, both counters stay 0.
C1_RerunAcceptsNothing ==
  (run > 1 /\ prev.how = "done" /\ TIME_THRESHOLD = prev.threshold)
    => /\ accepted = <<>>
       /\ count_sum = 0
       /\ count = 0
       /\ \A i \in 1..Len(out) : out[i].kind # "story"
       /\ pc \notin {"translate", "print", "add", "count", "count_sum", "scrape"}

\* The second run has finished after a first run that accepted recent entries.
C1_Witness ==
  /\ run = 2
  /\ prev.how = "done"
  /\ TIME_THRESHOLD = prev.threshold
  /\ pc = "done"
  /\ SomeRecent
  /\ loaded # {}

\* Feed f serves link l in two recent entries.
DupRecent(f, l) ==
  \E i, j \in 1..Len(feeds[f]) :
    /\ i < j
    /\ feeds[f][i].link = l
    /\ feeds[f][j].link = l
    /\ is_recent(feeds[f][i], TIME_THRESHOLD)
    /\ is_recent(feeds[f][j], TIME_THRESHOLD)

\* C2: within a run an entry whose link is in the seen set when it is evaluated
\* is skipped, so each link gets at most one story and at most one count; a
\* feed with two recent entries of one unseen link yields exactly one story
\* and one count for it.
C2_AtMostOncePerLink ==
  /\ \A l \in Links : Cardinality(StoryIdx(l)) <= 1 /\ Cardinality(AcceptIdx(l)) <= 1
  /\ count_sum <= Cardinality(AcceptedLinks)
  /\ pc \in {"translate", "print", "add"} => entry.link \notin seen_links
  /\ pc = "log_count" =>
       /\ count_sum = Cardinality(AcceptedLinks)
       /\ \A l \in Links :
            (DupRecent(feedIdx, l) /\ l \notin loaded)
              => Cardinality(StoryIdx(l)) = 1 /\ Cardinality(AcceptIdx(l)) = 1

\* A feed with the same unseen link in two recent entries has been processed.
C2_Witness ==
  /\ pc = "log_count"
  /\ \E l \in Links :
       /\ DupRecent(feedIdx, l)
       /\ l \notin loaded
       /\ AcceptedIn(feedIdx) = {l}
       /\ count = 1
       /\ count_sum = 1

\* The links added by the feeds of this run whose save_seen completed.
SavedAccepted == UNION {AcceptedIn(f) : f \in saved}

\* C3 as stated: after the process was killed inside a feed, the links that
\* feed had accepted are in the seen set the next process loads.
C3_CrashedFeedLinksLoaded ==
  (run > 1 /\ prev.how = "killed" /\ prev.inFeed /\ pc # "load_failed")
    => prev.feedAccepted \subseteq loaded

\* C3 as amended: inside a feed's entry loop SEEN_FILE holds exactly the loaded
\* set and the links of the feeds already saved, so none of the links the
\* interrupted feed accepted is in the set the next process loads.
C3_CrashedFeedLinksNotLoaded ==
  /\ pc \in InFeedPcs =>
       /\ Loadable(disk)
       /\ Range(disk.text) = loaded \cup SavedAccepted
       /\ AcceptedIn(feedIdx) \cap Range(disk.text) = {}
  /\ (run > 1 /\ prev.how = "killed" /\ prev.inFeed) => prev.feedAccepted \cap loaded = {}

\* The next process accepts again a link the interrupted feed had accepted.
C3_Witness ==
  /\ run > 1
  /\ prev.how = "killed"
  /\ prev.inFeed
  /\ prev.feedAccepted \cap AcceptedLinks # {}
  /\ loaded # {}

\* C4: at every point where the process can be killed, a later save_seen in
\* progress included, SEEN_FILE is loadable and holds every link accepted in
\* a feed whose save_seen completed.
C4_DurableSnapshot ==
  (pc \in RunningPcs /\ SavedAccepted # {})
    => (Loadable(disk) /\ SavedAccepted \subseteq Range(disk.text))

\* C5: translate_title returns a string under every outcome of detect and of
\* the request; no exception leaves it.
C5_TranslateNeverRaises == trOut.called => ~trOut.res.raised

\* C6: a process that ended after a failed fetch had fetched every configured
\* source: the failure of one source does not end the run.
C6_FetchFailureIsolated ==
  (pc \in EndedPcs /\ err = "feedparser.parse") => (feedIdx = NumFeeds /\ pc = "done")

\* C7: every run of fetch_and_process that has ended has printed the summary.
C7_SummaryAlwaysPrinted == pc \in {"done", "aborted"} => SummaryPrinted

\* C8: a failed scrape of an accepted entry leaves the story printed, the link
\* seen and both counters incremented for it, prints no excerpt and goes on
\* with the next entry of the feed.
C8_ScrapeFailureKeepsStory ==
  [][(pc = "scrape" /\ run' = run /\ out' = out)
       => /\ pc' = "for_entry"
          /\ entries' = entries
          /\ out'[Len(out')] = Story(feedIdx, title_en, entry.published, entry.link)
          /\ ExcerptIdx(entry.link) = {}
          /\ entry.link \in seen_links'
          /\ accepted'[Len(accepted')] = [feed |-> feedIdx, link |-> entry.link]
          /\ count' = Cardinality({i \in 1..Len(accepted') : accepted'[i].feed = feedIdx})
          /\ count_sum' = Len(accepted')
          /\ log'[Len(log')] = LogRec("scrape_failed", feedIdx, entry.link, 0)]_vars

\* A scrape has just failed and the feed has a further entry.
C8_Witness ==
  /\ pc = "for_entry"
  /\ entries # <<>>
  /\ log # <<>>
  /\ log[Len(log)].kind = "scrape_failed"
  /\ StoryIdx(log[Len(log)].link) # {}
  /\ ExcerptIdx(log[Len(log)].link) = {}
  /\ count = 1

Unchanged(call) == ~call.res.raised /\ call.res.value = trIn.text

\* C9 as stated: whatever the target language, a text detected as the target
\* language comes back unchanged and no request is made.
C9_BypassAnyTarget ==
  (trOut.called /\ trOut.det = trIn.target) => (Unchanged(trOut) /\ trOut.res.posts = 0)

\* C9 as amended: a text detected as "en" or "zh" comes back unchanged and no
\* request is made, whatever the target; so a text detected as the target is
\* bypassed when the target is "en" or "zh", and for any other target the
\* request is made.
C9_BypassEnZh ==
  /\ (trOut.called /\ trOut.det \in {"en", "zh"})
       => (Unchanged(trOut) /\ trOut.res.posts = 0)
  /\ (trOut.called /\ trOut.det = trIn.target /\ trIn.target \notin {"en", "zh"})
       => trOut.res.posts = 1

\* Text detected as the target "en": returned as is, no request.
C9_Witness ==
  /\ trOut.called
  /\ trOut.det = "en"
  /\ trIn.target = "en"
  /\ trOut.res.value = trIn.text
  /\ trOut.res.posts = 0

FailedRemote == {"neterr", "badjson", "nondict", "nofield", "empty"}

\* C10: when detect gives a language that is not bypassed and the request
\* fails (network error, malformed response, missing or empty translatedText),
\* the original text is returned and nothing is raised.
C10_FailSafe ==
  (trOut.called /\ trOut.det \notin {"en", "zh", "raise"} /\ trOut.rem \in FailedRemote)
    => (Unchanged(trOut) /\ trOut.res.posts = 1)

\* The service answered with an empty translatedText.
C10_Witness ==
  /\ trOut.called
  /\ trOut.det = "fr"
  /\ trOut.rem = "empty"
  /\ trOut.res.value = trIn.text

\* C11: is_recent never raises; it returns false when published is absent,
\* empty or unparseable; when published parses to a datetime it returns true
\* exactly when that datetime is later than the threshold.
C11_RecencyDecision ==
  recOut.called =>
    LET p == recIn.entry.published IN
      /\ ~recOut.res.raised
      /\ p.kind \in {"absent", "empty", "garbage"} => ~recOut.res.value
      /\ p.kind \in {"aware", "naive"} => (recOut.res.value <=> p.t > recIn.threshold)

\* The links of the recent entries of the feeds.
RecentLinks ==
  UNION {{feeds[f][i].link :
            i \in {k \in 1..Len(feeds[f]) : is_recent(feeds[f][k], TIME_THRESHOLD)}} :
         f \in Feeds}

\* C12: an entry that is not recent has no effect: control goes straight to
\* the next entry (no seen check, translation or enrichment), the seen set,
\* the counters, the output and the file stay as they were; only recent
\* entries reach the later steps, so the seen set holds the loaded links and
\* links of recent entries only, and after a completed run exactly those.
C12_NonRecentNoEffect ==
  /\ [][(pc = "is_recent" /\ ~is_recent(entry, TIME_THRESHOLD) /\ run' = run) =>
          /\ pc' = "for_entry"
          /\ UNCHANGED <<seen_links, count, count_sum, out, accepted, disk, saved, title_en>>]_vars
  /\ [](pc \in {"seen", "translate", "print", "add", "count", "count_sum", "scrape"}
          => is_recent(entry, TIME_THRESHOLD))
  /\ [](pc \in RunningPcs \cup {"done", "aborted"} => seen_links \subseteq loaded \cup RecentLinks)
  /\ [](pc = "done" => seen_links = loaded \cup RecentLinks)

\* Feed 1 served A (recent) and then B (not recent), nothing was loaded, and
\* the completed run marked A only.
C12_Witness ==
  /\ pc = "done"
  /\ loaded = {}
  /\ Len(feeds[1]) = 2
  /\ feeds[1][1].link = "A" /\ is_recent(feeds[1][1], TIME_THRESHOLD)
  /\ feeds[1][2].link = "B" /\ ~is_recent(feeds[1][2], TIME_THRESHOLD)
  /\ feeds[2] = <<>>
  /\ seen_links = {"A"}
  /\ count_sum = 1

\* C13: within one run the seen set only grows: every step of the run leaves
\* all links it held in it.
C13_SeenMonotonic ==
  [][run' = run => seen_links \subseteq seen_links']_vars

\* A run that loaded one link has added the other.
C13_Witness ==
  /\ pc \in RunningPcs
  /\ loaded # {}
  /\ loaded # seen_links
  /\ seen_links = Links
  /\ accepted # <<>>

\* C14: a process that ended after save_seen failed had gone on to the
\* remaining sources and completed the run, with the failure logged.
C14_PersistFailureNotFatal ==
  (pc \in EndedPcs /\ err \in {"open", "json.dump"})
    => /\ pc = "done"
       /\ feedIdx = NumFeeds
       /\ \E i \in 1..Len(log) : log[i].kind = "persist_failed"

Stories == {i \in 1..Len(out) : out[i].kind = "story"}

\* The last thing printed is the story of entry e with the translated title.
LastIsStoryOf(e) ==
  /\ out # <<>>
  /\ out[Len(out)] = Story(feedIdx, title_en, e.published, e.link)

\* C15: for an accepted entry the steps come in the order translate, print
\* the story, mark the link seen, increment count and count_sum, scrape: each
\* step hands over to the next one; when the link is added the story is
\* already printed; when the scrape starts the link is seen and counted and
\* no excerpt is printed yet; when the next entry is evaluated the link of
\* every printed story is in seen_links.
C15_StepOrder ==
  /\ [][run' = run =>
          /\ (pc = "translate" /\ pc' # "aborted") =>
               /\ pc' = "print"
               /\ \E det \in DetectOutcomes, rem \in RemoteOutcomes :
                    title_en' = translate_title(TitleOf(entry), "en", det, rem).value
               /\ UNCHANGED <<out, seen_links, count, count_sum>>
          /\ pc = "print" => (pc' = "add" /\ UNCHANGED <<seen_links, count, count_sum>>)
          /\ pc = "add" => (pc' = "count" /\ UNCHANGED <<out, count, count_sum>>)
          /\ pc = "count" => (pc' = "count_sum" /\ UNCHANGED <<out, seen_links, count_sum>>)
          /\ pc = "count_sum" => (pc' = "scrape" /\ UNCHANGED <<out, seen_links, count>>)
          /\ pc = "scrape" => (pc' = "for_entry" /\ UNCHANGED <<seen_links, count, count_sum>>)]_vars
  /\ [](pc = "print" => (entry.link \notin seen_links /\ StoryIdx(entry.link) = {}))
  /\ [](pc = "add" => (LastIsStoryOf(entry) /\ entry.link \notin seen_links))
  /\ [](pc \in {"count", "count_sum"} =>
          (LastIsStoryOf(entry) /\ entry.link \in seen_links /\ ExcerptIdx(entry.link) = {}))
  /\ [](pc = "scrape" =>
          /\ LastIsStoryOf(entry)
          /\ entry.link \in seen_links
          /\ count >= 1
          /\ count_sum = Cardinality(Stories)
          /\ ExcerptIdx(entry.link) = {})
  /\ [](pc \in {"for_entry", "is_recent", "seen"} => \A i \in Stories : out[i].link \in seen_links)
  /\ [](\A l \in Links : \A i \in ExcerptIdx(l) : \E j \in StoryIdx(l) : j < i)

\* The second entry of a feed is about to be evaluated after the first one was
\* accepted and its excerpt printed.
C15_Witness ==
  /\ pc = "is_recent"
  /\ Len(feeds[feedIdx]) = 2
  /\ entries = <<>>
  /\ accepted # <<>>
  /\ accepted[Len(accepted)].feed = feedIdx
  /\ ExcerptIdx(feeds[feedIdx][1].link) # {}

FetchLog == SelectSeq(log, LAMBDA r : r.kind = "fetching")

\* C16: in a run that has not crashed the sources fetched so far are sources
\* 1..feedIdx, in that order, once each; save_seen has completed once for
\* every source before the current one while the current one's entries are
\* handled, and once for the current one too before the next is fetched; it
\* starts only after the last entry of the source; the file changes nowhere
\* else.
C16_RunSchedule ==
  /\ [](pc \in RunningPcs \cup {"done"} =>
          /\ Len(FetchLog) = feedIdx
          /\ \A i \in 1..feedIdx : FetchLog[i].feed = i)
  /\ [](pc = "done" => (feedIdx = NumFeeds /\ Len(snaps) = NumFeeds /\ saved = Feeds))
  /\ [](pc \in InFeedPcs \cup SavePcs =>
          (Len(snaps) = feedIdx - 1 /\ saved = 1..(feedIdx - 1)))
  /\ [](pc \in {"sleep", "for_feed", "summary"} =>
          (Len(snaps) = feedIdx /\ saved = 1..feedIdx))
  /\ [](pc \in SavePcs => entries = <<>>)
  /\ [][(run' = run /\ (disk' # disk \/ snaps' # snaps \/ saved' # saved)) => pc \in SavePcs]_vars

\* A completed run over two sources that both served entries.
C16_Witness ==
  /\ pc = "done"
  /\ feeds[1] # <<>>
  /\ feeds[2] # <<>>
  /\ Len(accepted) = 2
  /\ Len(snaps) = NumFeeds

\* C17: after a completed save_seen, loading the file yields exactly
\* seen_links, whichever order the list was written in; the file holds each
\* link once and nothing of what an earlier save_seen wrote beyond that.
C17_RoundTrip ==
  /\ pc = "sleep" =>
       /\ Loadable(disk)
       /\ LoadSeen(disk) = seen_links
       /\ Len(disk.text) = Cardinality(seen_links)
  /\ \A d \in Snapshot(seen_links) : LoadSeen(d) = seen_links

\* The second save_seen of a run has overwritten what the first one wrote, and
\* the list was written in the order B, A.
C17_Witness ==
  /\ pc = "sleep"
  /\ Len(snaps) = 2
  /\ snaps[1] # snaps[2]
  /\ seen_links = Links
  /\ disk.text = <<"B", "A">>

RECURSIVE SumCounts(_)
SumCounts(s) ==
  IF s = <<>> THEN 0
  ELSE (IF Head(s).kind = "count" THEN Head(s).n ELSE 0) + SumCounts(Tail(s))

\* The per-feed counters of the feeds processed so far: those logged for the
\* completed feeds and count for the feed whose entries are being handled.
PerFeedSum == SumCounts(log) + (IF pc \in InFeedPcs THEN count ELSE 0)

NewSeen == Cardinality(seen_links \ loaded)

\* C18 as stated: in every state of a run count_sum equals the sum of the
\* per-feed counters, the number of stories printed and the number of links
\* in seen_links that were not loaded.
C18_CountersAgreeEverywhere ==
  pc \in RunningPcs \cup {"done"} =>
    /\ count_sum = PerFeedSum
    /\ count_sum = Cardinality(Stories)
    /\ count_sum = NewSeen

\* C18: the four numbers agree in every state of a run except between the
\* print of a story and the increment of count_sum, where the story, then the
\* link, then count are ahead of count_sum by one.
C18_CountersAgree ==
  /\ pc \in (RunningPcs \cup {"done"}) \ {"add", "count", "count_sum"} =>
       /\ count_sum = PerFeedSum
       /\ count_sum = Cardinality(Stories)
       /\ count_sum = NewSeen
  /\ pc = "add" =>
       /\ Cardinality(Stories) = count_sum + 1
       /\ NewSeen = count_sum
       /\ PerFeedSum = count_sum
  /\ pc = "count" =>
       /\ Cardinality(Stories) = count_sum + 1
       /\ NewSeen = count_sum + 1
       /\ PerFeedSum = count_sum
  /\ pc = "count_sum" =>
       /\ Cardinality(Stories) = count_sum + 1
       /\ NewSeen = count_sum + 1
       /\ PerFeedSum = count_sum + 1

\* A completed run that loaded a link and accepted the other one in the
\* second feed.
C18_Witness ==
  /\ pc = "done"
  /\ loaded # {}
  /\ count_sum = 1
  /\ AcceptedIn(1) = {}
  /\ AcceptedIn(2) # {}

\* C19: every snapshot a completed save_seen wrote in this run holds the
\* loaded links and every earlier snapshot of the run, and beyond the loaded
\* links only links of entries accepted in this run, which were recent and
\* not loaded.
C19_DurableMonotonic ==
  /\ \A i \in 1..Len(snaps) :
       /\ loaded \subseteq snaps[i]
       /\ snaps[i] \ loaded \subseteq AcceptedLinks
       /\ \A j \in 1..Len(snaps) : i < j => snaps[i] \subseteq snaps[j]
  /\ pc \in RunningPcs \cup {"done", "aborted"} =>
       AcceptedLinks \subseteq RecentLinks \ loaded

\* The second snapshot of a run that loaded one link holds the first one and
\* a link accepted after it.
C19_Witness ==
  /\ Len(snaps) = 2
  /\ loaded # {}
  /\ snaps[1] = loaded
  /\ snaps[2] = Links
  /\ snaps[2] # snaps[1]

====
